---- MODULE Spec2Model ----
(***************************************************************************)
(* Model of the rchess learner (class RchessLearner): the position-keyed   *)
(* statistics store, the game tracker and the position hashing.            *)
(***************************************************************************)
EXTENDS Integers, Sequences, FiniteSets, TLC

\* ---------------------------------------------------------------- bounds
\* number of games startGame may allocate in one behaviour
MaxGames == 2
\* number of positions recorded into one game
MaxPly == 2
\* last instant of the clock read by new Date() / Date.now()
MaxTime == 1

\* ---------------------------------------------------------------- values
\* JavaScript null in a scalar slot (move, result)
NULL == "null"
\* JavaScript null in an object slot (currentGame)
NoGame == [null |-> TRUE]

\* results passed to endGame: the three documented ones and one that is not
Results == {"white", "black", "draw", "aborted"}

\* ---------------------------------------------------------------- boards
\* symbols[color][type] of rchess-distribution.js, by code point
symbols(color, type) ==
    IF color = "white"
    THEN CASE type = "rook" -> "U+265C" [] type = "knight" -> "U+265E"
           [] type = "bishop" -> "U+265D" [] type = "queen" -> "U+265B"
           [] type = "king" -> "U+265A" [] OTHER -> "U+265F"
    ELSE CASE type = "rook" -> "U+2656" [] type = "knight" -> "U+2658"
           [] type = "bishop" -> "U+2657" [] type = "queen" -> "U+2655"
           [] type = "king" -> "U+2654" [] OTHER -> "U+2659"

\* an empty square
Empty == [color |-> NULL, pieceType |-> NULL, type |-> NULL]
\* a piece object as generateSide builds it
Piece(color, pieceType) ==
    [color |-> color, pieceType |-> pieceType, type |-> symbols(color, pieceType)]

EmptyRow == [c \in 1..8 |-> Empty]
PawnRow(color) == [c \in 1..8 |-> Piece(color, "pawn")]
BackRow(color, types) == [c \in 1..8 |-> Piece(color, types[c])]

\* a board is rows 0..7 (held at 1..8) of squares 0..7 (held at 1..8)
BoardA ==
    << BackRow("white", <<"rook", "knight", "bishop", "queen", "king", "bishop", "knight", "rook">>),
       PawnRow("white"), EmptyRow, EmptyRow, EmptyRow, EmptyRow,
       PawnRow("black"),
       BackRow("black", <<"rook", "knight", "bishop", "queen", "king", "bishop", "knight", "rook">>) >>

\* BoardA after white lost the bishop of column 5 and doubled a pawn
BoardB ==
    [BoardA EXCEPT ![1][6] = Empty, ![2][5] = Empty, ![3][4] = Piece("white", "pawn")]

\* another starting distribution: knight and rook of column 0 and 1 swapped
BoardC ==
    [BoardA EXCEPT ![1][1] = Piece("white", "knight"), ![1][2] = Piece("white", "rook")]

Boards == {BoardA, BoardB, BoardC}

\* the calls recordPosition(board, currentPlayer, move) a behaviour draws from
Plies ==
    { <<BoardA, "white", "e4">>, <<BoardB, "black", NULL>>, <<BoardC, "black", "e4">> }

\* board[r][c] for r, c in 0..7; a square is truthy iff it holds a piece
At(board, r, c) == board[r + 1][c + 1]
IsPiece(sq) == sq # Empty

\* ---------------------------------------------------------------- hashing
pieceToChar(type) ==
    CASE type = "pawn" -> "p" [] type = "knight" -> "n" [] type = "bishop" -> "b"
      [] type = "rook" -> "r" [] type = "queen" -> "q" [] type = "king" -> "k"
      [] OTHER -> "?"

\* str += empty, for a run of 1..8 empty squares
Digit(n) == <<"1", "2", "3", "4", "5", "6", "7", "8">>[n]

\* the characters one rank adds to str, scanning columns c..7 with `empty`
\* empty squares pending
RECURSIVE HashRank(_, _, _, _)
HashRank(board, r, c, empty) ==
    IF c = 8
    THEN IF empty > 0 THEN <<Digit(empty)>> ELSE <<>>
    ELSE LET piece == At(board, r, c) IN
         IF IsPiece(piece)
         THEN (IF empty > 0 THEN <<Digit(empty)>> ELSE <<>>)
              \o <<IF piece.color = "white" THEN "w" ELSE "b", pieceToChar(piece.pieceType)>>
              \o HashRank(board, r, c + 1, 0)
         ELSE HashRank(board, r, c + 1, empty + 1)

\* str of hashPosition, as the sequence of its characters
RECURSIVE HashStr(_, _, _)
HashStr(board, currentPlayer, r) ==
    IF r = 8
    THEN <<IF currentPlayer = "white" THEN "w" ELSE "b">>
    ELSE HashRank(board, r, 0, 0) \o (IF r < 7 THEN <<"/">> ELSE <<>>)
         \o HashStr(board, currentPlayer, r + 1)

\* char code of the characters hashPosition can emit
CharCode(ch) ==
    CASE ch = "w" -> 119 [] ch = "b" -> 98 [] ch = "p" -> 112 [] ch = "n" -> 110
      [] ch = "r" -> 114 [] ch = "q" -> 113 [] ch = "k" -> 107 [] ch = "?" -> 63
      [] ch = "/" -> 47 [] ch = "1" -> 49 [] ch = "2" -> 50 [] ch = "3" -> 51
      [] ch = "4" -> 52 [] ch = "5" -> 53 [] ch = "6" -> 54 [] ch = "7" -> 55
      [] ch = "8" -> 56

B64 ==
    << "A", "B", "C", "D", "E", "F", "G", "H", "I", "J", "K", "L", "M", "N", "O", "P",
       "Q", "R", "S", "T", "U", "V", "W", "X", "Y", "Z", "a", "b", "c", "d", "e", "f",
       "g", "h", "i", "j", "k", "l", "m", "n", "o", "p", "q", "r", "s", "t", "u", "v",
       "w", "x", "y", "z", "0", "1", "2", "3", "4", "5", "6", "7", "8", "9", "+", "/" >>

\* btoa of a sequence of characters, as the sequence of its characters
RECURSIVE btoa(_)
btoa(s) ==
    IF Len(s) = 0 THEN <<>>
    ELSE IF Len(s) = 1
    THEN LET n == CharCode(s[1]) * 65536 IN
         <<B64[(n \div 262144) + 1], B64[((n \div 4096) % 64) + 1], "=", "=">>
    ELSE IF Len(s) = 2
    THEN LET n == CharCode(s[1]) * 65536 + CharCode(s[2]) * 256 IN
         <<B64[(n \div 262144) + 1], B64[((n \div 4096) % 64) + 1],
           B64[((n \div 64) % 64) + 1], "=">>
    ELSE LET n == CharCode(s[1]) * 65536 + CharCode(s[2]) * 256 + CharCode(s[3]) IN
         <<B64[(n \div 262144) + 1], B64[((n \div 4096) % 64) + 1],
           B64[((n \div 64) % 64) + 1], B64[(n % 64) + 1]>>
         \o btoa(SubSeq(s, 4, Len(s)))

\* s.slice(0, n)
Slice(s, n) == SubSeq(s, 1, IF Len(s) < n THEN Len(s) ELSE n)

\* s.replace(/[+/=]/g, ''), joined into one string
RECURSIVE StripJoin(_)
StripJoin(s) ==
    IF Len(s) = 0 THEN ""
    ELSE (IF Head(s) \in {"+", "/", "="} THEN "" ELSE Head(s)) \o StripJoin(Tail(s))

hashPosition(board, currentPlayer) ==
    StripJoin(Slice(btoa(HashStr(board, currentPlayer, 0)), 8))

\* ---------------------------------------------------------------- summary
\* fen += piece.type / fen += empty for one rank, as a sequence of tokens
RECURSIVE FenRank(_, _, _, _)
FenRank(board, r, c, empty) ==
    IF c = 8
    THEN IF empty > 0 THEN <<Digit(empty)>> ELSE <<>>
    ELSE LET piece == At(board, r, c) IN
         IF IsPiece(piece)
         THEN (IF empty > 0 THEN <<Digit(empty)>> ELSE <<>>)
              \o <<piece.type>> \o FenRank(board, r, c + 1, 0)
         ELSE FenRank(board, r, c + 1, empty + 1)

RECURSIVE FenRows(_, _, _)
FenRows(board, currentPlayer, r) ==
    IF r = 8
    THEN <<IF currentPlayer = "white" THEN " w" ELSE " b">>
    ELSE FenRank(board, r, 0, 0) \o (IF r < 7 THEN <<"/">> ELSE <<>>)
         \o FenRows(board, currentPlayer, r + 1)

boardToFEN(board, currentPlayer) == FenRows(board, currentPlayer, 0)

\* ---------------------------------------------------------------- patterns
Squares == (0..7) \X (0..7)

isKingSafe(board, color) ==
    \E sq \in Squares :
        /\ At(board, sq[1], sq[2]).pieceType = "king"
        /\ At(board, sq[1], sq[2]).color = color

controlsCenter(board, color) == TRUE

hasBishopPair(board, color) ==
    Cardinality({sq \in Squares : /\ At(board, sq[1], sq[2]).pieceType = "bishop"
                                  /\ At(board, sq[1], sq[2]).color = color}) >= 2

hasDoubledPawns(board, color) ==
    \E c \in 0..7 :
        Cardinality({r \in 0..7 : /\ At(board, r, c).pieceType = "pawn"
                                 /\ At(board, r, c).color = color}) > 1

detectPatterns(board, currentPlayer) ==
    (IF isKingSafe(board, "white") THEN <<"white_king_safe">> ELSE <<>>)
    \o (IF isKingSafe(board, "black") THEN <<"black_king_safe">> ELSE <<>>)
    \o (IF controlsCenter(board, "white") THEN <<"white_center">> ELSE <<>>)
    \o (IF controlsCenter(board, "black") THEN <<"black_center">> ELSE <<>>)
    \o (IF hasBishopPair(board, "white") THEN <<"white_bishop_pair">> ELSE <<>>)
    \o (IF hasBishopPair(board, "black") THEN <<"black_bishop_pair">> ELSE <<>>)
    \o (IF hasDoubledPawns(board, "white") THEN <<"white_doubled_pawns">> ELSE <<>>)
    \o (IF hasDoubledPawns(board, "black") THEN <<"black_doubled_pawns">> ELSE <<>>)

\* ---------------------------------------------------------------- state
VARIABLES
    db,           \* this.db: positions, games, patterns, metadata
    currentGame,  \* this.currentGame: the game being tracked, or NoGame
    storage,      \* localStorage[storageKey]: NoItem or the text last written
    writable,     \* whether localStorage.setItem succeeds (it throws otherwise)
    now,          \* the clock new Date() and Date.now() read
    nextId,       \* number of game ids startGame has handed out
    op,           \* the method called last
    ret,          \* what that call returned
    pre,          \* the tracker state that call found
    afterReset,   \* how far the calls since the last reset follow
                  \* reset, startGame, recordPosition.., endGame (0: they do not)
    arg,          \* the argument of the call, for importDatabase and the queries
    exported,     \* the text exportDatabase returned last, or NoItem
    placeErrors   \* the lines generateSide wrote with console.error

vars == <<db, currentGame, storage, writable, now, nextId, op, ret, pre, afterReset,
          arg, exported, placeErrors>>

\* the tracker state of the game session: a game is in progress while
\* currentGame is set; it is set to null again only by endGame
tracker ==
    IF currentGame # NoGame THEN "InProgress"
    ELSE IF nextId = 0 THEN "NotStarted" ELSE "Ended"

\* localStorage.getItem(key) === null
NoItem == [kind |-> "none"]

\* JSON.stringify of a document of strings, numbers, null, arrays and plain
\* objects: the text denotes that value
JSONstringify(value) == [kind |-> "json", value |-> value]

\* return values
RetNull == [type |-> "null"]
RetUndefined == [type |-> "undefined"]
RetObject(o) == [type |-> "object", value |-> o]
RetString(str) == [type |-> "string", value |-> str]

\* the default empty database of loadDatabase
DefaultDb(t) ==
    [ positions |-> << >>,
      games |-> << >>,
      patterns |-> << >>,
      metadata |-> [version |-> "1.0", lastUpdated |-> t, totalGames |-> 0] ]

\* reset that keeps the running total of games
ResetDb_KeepsTotal(t) ==
    [ positions |-> << >>,
      games |-> << >>,
      patterns |-> << >>,
      metadata |-> [version |-> "1.0", lastUpdated |-> t,
                    totalGames |-> db.metadata.totalGames] ]

\* the database reset assigns
ResetDb(t) ==
    [ positions |-> << >>,
      games |-> << >>,
      patterns |-> << >>,
      metadata |-> [version |-> "1.0", lastUpdated |-> t, totalGames |-> 0] ]

\* instants a call may read: the clock does not go back
Instants == {t \in {now, now + 1} : t <= MaxTime}

\* ---------------------------------------------------------------- helpers
\* saveDatabase on document d at instant t: the document and the stored text
\* after the call, and what it returns
saveDatabase(d, t) ==
    LET d2 == [d EXCEPT !.metadata.lastUpdated = t] IN
    [ db |-> d2,
      storage |-> IF writable THEN JSONstringify(d2) ELSE storage,
      ret |-> writable ]

\* the object startGame builds
NewGame(t) ==
    [ id |-> nextId + 1,
      startTime |-> t,
      positions |-> << >>,
      moves |-> << >>,
      result |-> NULL,
      players |-> [white |-> "human", black |-> "computer"] ]

\* recordPosition that records the position only together with a move
RecordedGame_OnlyWithMove(game, hash, move, currentPlayer, t) ==
    IF move # NULL
    THEN [game EXCEPT
             !.positions = Append(@, [hash |-> hash, move |-> move,
                                      player |-> currentPlayer, timestamp |-> t]),
             !.moves = Append(@, move)]
    ELSE game

\* the two pushes of recordPosition on the game being tracked
RecordedGame(game, hash, move, currentPlayer, t) ==
    [game EXCEPT
        !.positions = Append(@, [hash |-> hash, move |-> move,
                                 player |-> currentPlayer, timestamp |-> t]),
        !.moves = IF move # NULL THEN Append(@, move) ELSE @]

\* a new position record
NewPosition(hash, board, currentPlayer, t) ==
    [ hash |-> hash,
      fen |-> boardToFEN(board, currentPlayer),
      firstSeen |-> t,
      lastSeen |-> t,
      totalGames |-> 0,
      outcomes |-> [white |-> 0, black |-> 0, draw |-> 0],
      moves |-> << >>,
      patterns |-> detectPatterns(board, currentPlayer),
      popularity |-> 0 ]

\* updatePositionStats that counts popularity only when it creates the record
updatePositionStats_CountsOnce(positions, hash, board, currentPlayer, t) ==
    IF hash \in DOMAIN positions
    THEN [positions EXCEPT ![hash].lastSeen = t]
    ELSE (hash :> [NewPosition(hash, board, currentPlayer, t) EXCEPT !.popularity = 1])
         @@ positions

\* updatePositionStats that reads fen and patterns off the board on every visit
updatePositionStats_Retags(positions, hash, board, currentPlayer, t) ==
    LET created ==
            IF hash \in DOMAIN positions
            THEN positions
            ELSE (hash :> NewPosition(hash, board, currentPlayer, t)) @@ positions
    IN [created EXCEPT ![hash].lastSeen = t,
                       ![hash].popularity = @ + 1,
                       ![hash].fen = boardToFEN(board, currentPlayer),
                       ![hash].patterns = detectPatterns(board, currentPlayer)]

\* updatePositionStats on the positions map
updatePositionStats(positions, hash, board, currentPlayer, t) ==
    LET created ==
            IF hash \in DOMAIN positions
            THEN positions
            ELSE (hash :> NewPosition(hash, board, currentPlayer, t)) @@ positions
    IN [created EXCEPT ![hash].lastSeen = t,
                       ![hash].popularity = @ + 1]

\* the body of the forEach callback of updateGamePositions for a position
\* record that exists and was not seen before in this game
FoldPosition(position, pos, result) ==
    LET counted ==
            [ (IF result \in {"white", "black", "draw"}
               THEN [position EXCEPT !.outcomes[result] = @ + 1]
               ELSE position)
              EXCEPT !.totalGames = @ + 1 ]
    IN IF pos.move # NULL /\ pos.move \in DOMAIN position.moves
       THEN LET player == pos.player IN
            [counted EXCEPT
                !.moves[pos.move].played = @ + 1,
                !.moves[pos.move].wins = IF result = player THEN @ + 1 ELSE @,
                !.moves[pos.move].draws =
                    IF result # player /\ result = "draw" THEN @ + 1 ELSE @,
                !.moves[pos.move].losses =
                    IF result # player /\ result # "draw" THEN @ + 1 ELSE @]
       ELSE counted

\* updateGamePositions: game.positions.forEach from index i on
RECURSIVE updateGamePositions(_, _, _, _, _)
updateGamePositions(positions, gamePositions, i, seenHashes, result) ==
    IF i > Len(gamePositions)
    THEN positions
    ELSE LET pos == gamePositions[i] IN
         IF pos.hash \in seenHashes
         THEN updateGamePositions(positions, gamePositions, i + 1, seenHashes, result)
         ELSE IF pos.hash \notin DOMAIN positions
         THEN updateGamePositions(positions, gamePositions, i + 1,
                                  seenHashes \cup {pos.hash}, result)
         ELSE updateGamePositions(
                  [positions EXCEPT ![pos.hash] = FoldPosition(@, pos, result)],
                  gamePositions, i + 1, seenHashes \cup {pos.hash}, result)

\* endGame that does not count the game in metadata.totalGames
FoldedDb_NoCount(d, gameData, result) ==
    [d EXCEPT
        !.games = Append(@, gameData),
        !.positions = updateGamePositions(@, gameData.positions, 1, {}, result)]

\* endGame that puts the game at the head of the games list
FoldedDb_Unshift(d, gameData, result) ==
    [d EXCEPT
        !.games = <<gameData>> \o @,
        !.metadata.totalGames = @ + 1,
        !.positions = updateGamePositions(@, gameData.positions, 1, {}, result)]

\* endGame on the database: the game is pushed, counted and folded
FoldedDb(d, gameData, result) ==
    [d EXCEPT
        !.games = Append(@, gameData),
        !.metadata.totalGames = @ + 1,
        !.positions = updateGamePositions(@, gameData.positions, 1, {}, result)]

\* ---------------------------------------------------------------- actions
\* constructor with nothing stored under the key: loadDatabase returns the
\* empty database. The backend either takes writes or rejects them (quota,
\* disabled storage).
Init ==
    /\ now = 0
    /\ writable \in BOOLEAN
    /\ storage = NoItem
    /\ db = DefaultDb(0)
    /\ currentGame = NoGame
    /\ nextId = 0
    /\ op = "constructor"
    /\ ret = RetUndefined
    /\ pre = "NotStarted"
    /\ afterReset = 0
    /\ arg = NoItem
    /\ exported = NoItem
    /\ placeErrors = << >>

startGame ==
    /\ nextId < MaxGames
    /\ \E t \in Instants :
        /\ now' = t
        /\ currentGame' = NewGame(t)
        /\ ret' = RetObject(NewGame(t))
    /\ nextId' = nextId + 1
    /\ op' = "startGame"
    /\ pre' = tracker
    /\ afterReset' = IF afterReset = 1 THEN 2 ELSE 0
    /\ UNCHANGED <<db, storage, writable, arg, exported, placeErrors>>

recordPosition(board, currentPlayer, move) ==
    /\ currentGame = NoGame => nextId < MaxGames
    /\ currentGame # NoGame => Len(currentGame.positions) < MaxPly
    /\ \E t \in Instants :
        LET game == IF currentGame = NoGame THEN NewGame(t) ELSE currentGame
            hash == hashPosition(board, currentPlayer)
        IN /\ now' = t
           /\ currentGame' = RecordedGame(game, hash, move, currentPlayer, t)
           /\ db' = [db EXCEPT !.positions =
                        updatePositionStats(@, hash, board, currentPlayer, t)]
           /\ ret' = RetString(hash)
    /\ nextId' = IF currentGame = NoGame THEN nextId + 1 ELSE nextId
    /\ op' = "recordPosition"
    /\ pre' = tracker
    /\ afterReset' = IF afterReset \in {2, 3} THEN 3 ELSE 0
    /\ UNCHANGED <<storage, writable, arg, exported, placeErrors>>

\* the early return of endGame that still counts a game
endGameNoGame_Counts ==
    /\ ret' = RetNull
    /\ db' = [db EXCEPT !.metadata.totalGames = @ + 1]
    /\ UNCHANGED <<currentGame, storage, now>>

\* the early return of endGame that starts a game, as recordPosition does
endGameNoGame_StartsGame ==
    /\ ret' = RetNull
    /\ currentGame' = NewGame(now)
    /\ UNCHANGED <<db, storage, now>>

\* endGame with no game in progress: the early return
endGameNoGame ==
    /\ ret' = RetNull
    /\ UNCHANGED <<db, currentGame, storage, now>>

\* endGame with a game in progress
endGameFold(result) ==
    \E t \in Instants :
        LET gameData == [ id |-> currentGame.id,
                          startTime |-> currentGame.startTime,
                          positions |-> currentGame.positions,
                          moves |-> currentGame.moves,
                          result |-> result,
                          players |-> currentGame.players,
                          endTime |-> t ]
            saved == saveDatabase(FoldedDb(db, gameData, result), t)
        IN /\ now' = t
           /\ db' = saved.db
           /\ storage' = saved.storage
           /\ currentGame' = NoGame
           /\ ret' = RetObject(gameData)

endGame(result) ==
    /\ IF currentGame = NoGame THEN endGameNoGame ELSE endGameFold(result)
    /\ op' = "endGame"
    /\ pre' = tracker
    /\ afterReset' = IF currentGame # NoGame /\ afterReset = 3 THEN 4 ELSE 0
    /\ UNCHANGED <<nextId, writable, arg, exported, placeErrors>>

reset ==
    /\ \E t \in Instants :
        LET saved == saveDatabase(ResetDb(t), t) IN
        /\ now' = t
        /\ db' = saved.db
        /\ storage' = saved.storage
    /\ ret' = RetUndefined
    /\ op' = "reset"
    /\ pre' = tracker
    /\ afterReset' = 1
    /\ UNCHANGED <<currentGame, nextId, writable, arg, exported, placeErrors>>

Next ==
    \/ startGame
    \/ \E ply \in Plies : recordPosition(ply[1], ply[2], ply[3])
    \/ \E result \in Results : endGame(result)
    \/ reset

Spec == Init /\ [][Next]_vars

\* ---------------------------------------------------------------- persistence
\* number of games started in a behaviour of SpecStore
MaxStoreGames == 1
\* number of positions recorded into one game in SpecStore
MaxStorePly == 1

RetBool(b) == [type |-> "boolean", value |-> b]
\* the call threw a TypeError to its caller
RetThrows == [type |-> "throws"]

\* a text JSON.parse throws on
Garbage == [kind |-> "garbage"]
\* the value of the text {}
EmptyObject == << >>

JSONparses(text) == text.kind = "json"
JSONparse(text) == text.value

\* a document with the three top-level fields of the persisted document
WellFormed(d) == {"positions", "games", "metadata"} \subseteq DOMAIN d
\* a text that parses to such a document
WellFormedText(text) == JSONparses(text) /\ WellFormed(JSONparse(text))

\* loadDatabase: what the constructor assigns to this.db at instant t when
\* the backend holds `stored` under the key
loadDatabase(stored, t) ==
    IF stored # NoItem /\ JSONparses(stored)
    THEN JSONparse(stored)
    ELSE DefaultDb(t)

\* saveDatabase on any document: this.db.metadata.lastUpdated = ... throws
\* inside the try when the document has no metadata
saveDatabaseOn(d, t) ==
    IF "metadata" \in DOMAIN d
    THEN saveDatabase(d, t)
    ELSE [db |-> d, storage |-> storage, ret |-> FALSE]

\* importDatabase that takes only the positions of the imported document
ImportedDb_OnlyPositions(d, parsed) ==
    IF WellFormed(d) /\ WellFormed(parsed)
    THEN [d EXCEPT !.positions = parsed.positions]
    ELSE parsed

\* this.db = JSON.parse(jsonData)
ImportedDb(d, parsed) == parsed

\* texts importDatabase is given that are no persisted document
ImportTexts == {Garbage, JSONstringify(EmptyObject)}

\* what the backend holds when the learner is constructed
StoredAtStart == {NoItem, Garbage, JSONstringify(EmptyObject)}

StorePlies == { <<BoardA, "white", "e4">>, <<BoardC, "black", NULL>> }
StoreResults == {"white", "draw"}

InitStore ==
    /\ now = 0
    /\ writable \in BOOLEAN
    /\ storage \in StoredAtStart
    /\ db = loadDatabase(storage, 0)
    /\ currentGame = NoGame
    /\ nextId = 0
    /\ op = "constructor"
    /\ ret = RetUndefined
    /\ pre = "NotStarted"
    /\ afterReset = 0
    /\ arg = NoItem
    /\ exported = NoItem
    /\ placeErrors = << >>

exportDatabase ==
    /\ exported' = JSONstringify(db)
    /\ ret' = RetString(JSONstringify(db))
    /\ op' = "exportDatabase"
    /\ pre' = tracker
    /\ afterReset' = 0
    /\ UNCHANGED <<db, currentGame, storage, writable, now, nextId, arg, placeErrors>>

importDatabase(jsonData) ==
    /\ arg' = jsonData
    /\ IF JSONparses(jsonData)
       THEN \E t \in Instants :
            LET saved == saveDatabaseOn(ImportedDb(db, JSONparse(jsonData)), t) IN
            /\ now' = t
            /\ db' = saved.db
            /\ storage' = saved.storage
            /\ ret' = RetBool(TRUE)
       ELSE /\ ret' = RetBool(FALSE)
            /\ UNCHANGED <<db, storage, now>>
    /\ op' = "importDatabase"
    /\ pre' = tracker
    /\ afterReset' = 0
    /\ UNCHANGED <<currentGame, writable, nextId, exported, placeErrors>>

\* saveDatabase called by the owner of the learner
callSaveDatabase ==
    /\ \E t \in Instants :
        LET saved == saveDatabaseOn(db, t) IN
        /\ now' = t
        /\ db' = saved.db
        /\ storage' = saved.storage
        /\ ret' = RetBool(saved.ret)
    /\ op' = "saveDatabase"
    /\ pre' = tracker
    /\ afterReset' = 0
    /\ UNCHANGED <<currentGame, writable, nextId, arg, exported, placeErrors>>

\* recordPosition on a document without positions: the entry is pushed, then
\* this.db.positions[hash] throws
recordPositionThrows(board, currentPlayer, move) ==
    /\ \E t \in Instants :
        LET game == IF currentGame = NoGame THEN NewGame(t) ELSE currentGame
            hash == hashPosition(board, currentPlayer)
        IN /\ now' = t
           /\ currentGame' = RecordedGame(game, hash, move, currentPlayer, t)
    /\ nextId' = IF currentGame = NoGame THEN nextId + 1 ELSE nextId
    /\ ret' = RetThrows
    /\ op' = "recordPosition"
    /\ pre' = tracker
    /\ afterReset' = 0
    /\ UNCHANGED <<db, storage, writable, arg, exported, placeErrors>>

\* endGame with a game in progress on a document without games: result and
\* endTime are set on the current game, then this.db.games.push throws
endGameThrows(result) ==
    /\ \E t \in Instants :
        /\ now' = t
        /\ currentGame' = [ id |-> currentGame.id,
                            startTime |-> currentGame.startTime,
                            positions |-> currentGame.positions,
                            moves |-> currentGame.moves,
                            result |-> result,
                            players |-> currentGame.players,
                            endTime |-> t ]
    /\ ret' = RetThrows
    /\ op' = "endGame"
    /\ pre' = tracker
    /\ afterReset' = 0
    /\ UNCHANGED <<db, storage, writable, nextId, arg, exported, placeErrors>>

\* importDatabase of the text exportDatabase returned
importExported ==
    /\ exported # NoItem
    /\ importDatabase(exported)

storeStartGame ==
    /\ nextId < MaxStoreGames
    /\ startGame

storeRecordPosition(board, currentPlayer, move) ==
    /\ currentGame = NoGame => nextId < MaxStoreGames
    /\ currentGame # NoGame => Len(currentGame.positions) < MaxStorePly
    /\ IF WellFormed(db)
       THEN recordPosition(board, currentPlayer, move)
       ELSE recordPositionThrows(board, currentPlayer, move)

storeEndGame(result) ==
    IF currentGame # NoGame /\ ~WellFormed(db)
    THEN endGameThrows(result)
    ELSE endGame(result)

NextStore ==
    \/ storeStartGame
    \/ \E ply \in StorePlies : storeRecordPosition(ply[1], ply[2], ply[3])
    \/ \E result \in StoreResults : storeEndGame(result)
    \/ reset
    \/ exportDatabase
    \/ \E jsonData \in ImportTexts : importDatabase(jsonData)
    \/ importExported
    \/ callSaveDatabase

SpecStore == InitStore /\ [][NextStore]_vars

\* ---------------------------------------------------------------- queries
\* The analysis functions compute with fractions; a fraction is held exactly
\* as <<numerator, denominator>> with a denominator > 0.
RatLess(a, b) == a[1] * b[2] < b[1] * a[2]
RatAbs(a) == <<IF a[1] < 0 THEN 0 - a[1] ELSE a[1], a[2]>>
RatSub(a, b) == <<a[1] * b[2] - b[1] * a[2], a[2] * b[2]>>
RatAdd(a, b) == <<a[1] * b[2] + b[1] * a[2], a[2] * b[2]>>

\* Array.prototype.sort((a, b) => key(b) - key(a)) on entries [item, key]:
\* a stable sort by descending key
RECURSIVE InsertDesc(_, _)
InsertDesc(sorted, e) ==
    IF Len(sorted) = 0 THEN <<e>>
    ELSE IF RatLess(Head(sorted).key, e.key) THEN <<e>> \o sorted
    ELSE <<Head(sorted)>> \o InsertDesc(Tail(sorted), e)

RECURSIVE SortDesc(_)
SortDesc(entries) ==
    IF Len(entries) = 0 THEN << >>
    ELSE InsertDesc(SortDesc(SubSeq(entries, 1, Len(entries) - 1)), entries[Len(entries)])

Items(entries) == [i \in 1..Len(entries) |-> entries[i].item]

\* the sample a position needs before findInconsistencies looks at it
MinGames == 5

\* the entries findInconsistencies pushes, scanning the position records
\* in the order for..in enumerates them, from index i on
RECURSIVE Inconsistencies(_, _, _, _)
Inconsistencies(positionList, threshold, i, minGames) ==
    IF i > Len(positionList) THEN << >>
    ELSE LET pos == positionList[i]
             expected == <<1, 2>>
             actual == <<pos.outcomes.white, pos.totalGames>>
         IN IF pos.totalGames < minGames
            THEN Inconsistencies(positionList, threshold, i + 1, minGames)
            ELSE IF RatLess(threshold, RatAbs(RatSub(actual, expected)))
            THEN << [ hash |-> pos.hash,
                      fen |-> pos.fen,
                      expected |-> expected,
                      actual |-> actual,
                      games |-> pos.totalGames,
                      patterns |-> pos.patterns,
                      deviation |-> RatSub(actual, expected) ] >>
                 \o Inconsistencies(positionList, threshold, i + 1, minGames)
            ELSE Inconsistencies(positionList, threshold, i + 1, minGames)

\* findInconsistencies that asks for more than the minimum sample
findInconsistencies_GateAbove(positionList, threshold) ==
    LET found == Inconsistencies(positionList, threshold, 1, MinGames + 1) IN
    Items(SortDesc([i \in 1..Len(found) |->
                       [item |-> found[i], key |-> RatAbs(found[i].deviation)]]))

findInconsistencies(positionList, threshold) ==
    LET found == Inconsistencies(positionList, threshold, 1, MinGames) IN
    Items(SortDesc([i \in 1..Len(found) |->
                       [item |-> found[i], key |-> RatAbs(found[i].deviation)]]))

\* number of position records in a store given to findInconsistencies
MaxPositions == 2
\* largest totalGames of such a record
MaxSample == 6

\* a position record the game operations can build: white wins among
\* totalGames games, the others lost
SampleRecord(hash, totalGames, white) ==
    [ hash |-> hash,
      fen |-> boardToFEN(BoardA, "white"),
      firstSeen |-> 0,
      lastSeen |-> 0,
      totalGames |-> totalGames,
      outcomes |-> [white |-> white, black |-> totalGames - white, draw |-> 0],
      moves |-> << >>,
      patterns |-> detectPatterns(BoardA, "white"),
      popularity |-> totalGames ]

SampleKeys == <<hashPosition(BoardA, "white"), hashPosition(BoardC, "white"), "d3Bid25i">>

\* the stores findInconsistencies is asked about, as the list of their
\* records: no games, or one short of the minimum sample and more, of which
\* white won none, one, half, all but one or all
PositionLists ==
    UNION { { [i \in 1..n |-> SampleRecord(SampleKeys[i], f[i][1], f[i][2])] :
                f \in [1..n -> {tw \in (({0} \cup (MinGames - 1)..MaxSample) \X (0..MaxSample)) :
                                    tw[2] \in {0, 1, tw[1] \div 2, tw[1] - 1, tw[1]}}] } :
            n \in 0..MaxPositions }

\* thresholds asked for: the default 0.2, and 0.25, 0.4
Thresholds == {<<1, 5>>, <<1, 4>>, <<2, 5>>}

RatMul(a, b) == <<a[1] * b[1], a[2] * b[2]>>
RatEq(a, b) == a[1] * b[2] = b[1] * a[2]

\* the weight of the exploration term of suggestMove, 0.1
ExplorationWeight == <<1, 10>>
\* the number of plays the exploration term is scaled by
ExplorationPlays == 20

\* what Array.prototype.find gives when no position has the hash
NotFound == [null |-> TRUE]

\* the entries suggestMove scores, in the order of Object.entries(pos.moves);
\* moveList is that list, of <<move, stats>>
Scored(moveList, color) ==
    [i \in 1..Len(moveList) |->
        LET move == moveList[i][1]
            stats == moveList[i][2]
            winRate == IF color = "black" THEN <<stats.losses, stats.played>>
                       ELSE <<stats.wins, stats.played>>
            exploration == RatMul(ExplorationWeight,
                                  RatSub(<<1, 1>>, <<stats.played, ExplorationPlays>>))
        IN [move |-> move, score |-> RatAdd(winRate, exploration), played |-> stats.played]]

suggestMove(pos, color) ==
    IF pos = NotFound \/ Len(pos.moves) = 0 THEN RetNull
    ELSE LET scored == Scored(pos.moves, color)
             sorted == Items(SortDesc([i \in 1..Len(scored) |->
                                          [item |-> scored[i], key |-> scored[i].score]]))
         IN RetObject(sorted[1])

\* number of moves recorded at the position asked about
MaxMoves == 2
\* largest number of plays of a move
MaxPlayed == 21

MoveNames == <<"e4", "d4", "c4">>

\* statistics recordMove can have built for a move: played >= 1
StatsSamples ==
    UNION { { [played |-> p, wins |-> w, losses |-> p - w, draws |-> 0] :
                w \in {0, p \div 2, p} } :
            p \in {1, 10, ExplorationPlays, MaxPlayed} }

\* what suggestMove finds for the hash: nothing, or a position with its moves
FoundPositions ==
    {NotFound} \cup
    UNION { { [hash |-> hashPosition(BoardA, "white"),
               moves |-> [i \in 1..n |-> <<MoveNames[i], f[i]>>]] :
                f \in [1..n -> StatsSamples] } :
            n \in 0..MaxMoves }

Colors == {"white", "black"}

\* Array.prototype.join(' -> ') of a list of move strings (the separator of
\* the source is an arrow between two spaces)
RECURSIVE Join(_)
Join(moves) ==
    IF Len(moves) = 0 THEN ""
    ELSE IF Len(moves) = 1 THEN moves[1]
    ELSE moves[1] \o " -> " \o Join(Tail(moves))

\* Array.prototype.slice(0, n)
SliceTo(list, n) == SubSeq(list, 1, IF n < Len(list) THEN n ELSE Len(list))

\* the number of lines getOpeningTree returns at most
MaxLines == 20

\* the openings object after the first n games, as the list of its
\* [key, line] entries in insertion order; a game with fewer than minMoves
\* moves is passed over
RECURSIVE Openings(_, _, _, _)
Openings(games, depth, n, minMoves) ==
    IF n = 0 THEN << >>
    ELSE LET openings == Openings(games, depth, n - 1, minMoves)
             game == games[n]
             key == Join(SliceTo(game.moves, depth))
             at == {i \in 1..Len(openings) : openings[i].key = key}
             Counted(line) ==
                 [line EXCEPT
                     !.games = @ + 1,
                     !.wins = IF game.result = "white" THEN @ + 1 ELSE @,
                     !.losses = IF game.result = "black" THEN @ + 1 ELSE @,
                     !.draws = IF game.result \notin {"white", "black"} THEN @ + 1 ELSE @]
         IN IF Len(game.moves) < minMoves THEN openings
            ELSE IF at = {}
            THEN Append(openings,
                        [key |-> key,
                         line |-> Counted([moves |-> SliceTo(game.moves, depth),
                                           games |-> 0, wins |-> 0,
                                           losses |-> 0, draws |-> 0])])
            ELSE LET i == CHOOSE i \in at : TRUE IN
                 [openings EXCEPT ![i].line = Counted(@)]

\* getOpeningTree that also counts the games shorter than depth
getOpeningTree_CountsShort(games, depth) ==
    LET openings == Openings(games, depth, Len(games), 0) IN
    SliceTo(Items(SortDesc([i \in 1..Len(openings) |->
                               [item |-> openings[i].line,
                                key |-> <<openings[i].line.games, 1>>]])),
            MaxLines)

getOpeningTree(games, depth) ==
    LET openings == Openings(games, depth, Len(games), depth) IN
    SliceTo(Items(SortDesc([i \in 1..Len(openings) |->
                               [item |-> openings[i].line,
                                key |-> <<openings[i].line.games, 1>>]])),
            MaxLines)

\* number of games in a store given to getOpeningTree
MaxTreeGames == 30
\* largest depth asked for
MaxDepth == 3
\* number of distinct moves the games are made of
MaxTokens == 5

MoveTokens == <<"e4", "d4", "c4", "Nf3", "g3", "b3">>

\* a game as endGame stores it, with the moves it recorded
StoredGame(id, moves, result) ==
    [ id |-> id,
      startTime |-> 0,
      positions |-> [i \in 1..Len(moves) |->
                        [hash |-> hashPosition(BoardA, "white"), move |-> moves[i],
                         player |-> IF i % 2 = 1 THEN "white" ELSE "black",
                         timestamp |-> 0]],
      moves |-> moves,
      result |-> result,
      players |-> [white |-> "human", black |-> "computer"],
      endTime |-> 0 ]

\* the games lists getOpeningTree is asked about: n games over k moves, the
\* i-th with three moves, or one move when i is a multiple of 7, the results
\* taken in turn
TreeResults == <<"white", "black", "draw", "aborted">>

TreeGames(n, k) ==
    [i \in 1..n |->
        StoredGame(i,
                   SliceTo(<<MoveTokens[(i % k) + 1],
                             MoveTokens[((i \div k) % k) + 1],
                             MoveTokens[((i \div (k * k)) % k) + 1]>>,
                           IF i % 7 = 0 THEN 1 ELSE 3),
                   TreeResults[(i % 4) + 1])]

GameLists == {TreeGames(n, k) : n \in 0..MaxTreeGames, k \in 1..MaxTokens}

InitQuery ==
    /\ now = 0
    /\ writable = TRUE
    /\ storage = NoItem
    /\ db = DefaultDb(0)
    /\ currentGame = NoGame
    /\ nextId = 0
    /\ op = "constructor"
    /\ ret = RetUndefined
    /\ pre = "NotStarted"
    /\ afterReset = 0
    /\ exported = NoItem
    /\ placeErrors = << >>
    /\ arg \in [query : {"findInconsistencies"}, positions : PositionLists,
                threshold : Thresholds]
            \cup [query : {"suggestMove"}, pos : FoundPositions, color : Colors]
            \cup [query : {"getOpeningTree"}, games : GameLists, depth : 0..MaxDepth]

callFindInconsistencies ==
    /\ arg.query = "findInconsistencies"
    /\ ret' = RetObject(findInconsistencies(arg.positions, arg.threshold))
    /\ op' = "findInconsistencies"
    /\ UNCHANGED <<db, currentGame, storage, writable, now, nextId, pre, afterReset,
                   arg, exported, placeErrors>>

callSuggestMove ==
    /\ arg.query = "suggestMove"
    /\ ret' = suggestMove(arg.pos, arg.color)
    /\ op' = "suggestMove"
    /\ UNCHANGED <<db, currentGame, storage, writable, now, nextId, pre, afterReset,
                   arg, exported, placeErrors>>

callGetOpeningTree ==
    /\ arg.query = "getOpeningTree"
    /\ ret' = RetObject(getOpeningTree(arg.games, arg.depth))
    /\ op' = "getOpeningTree"
    /\ UNCHANGED <<db, currentGame, storage, writable, now, nextId, pre, afterReset,
                   arg, exported, placeErrors>>

NextQuery ==
    \/ callFindInconsistencies
    \/ callSuggestMove
    \/ callGetOpeningTree

SpecQuery == InitQuery /\ [][NextQuery]_vars

\* ---------------------------------------------------------------- board setup
getSquareColor(row, col) == IF (row + col) % 2 = 0 THEN "light" ELSE "dark"

\* number of the last steps of a shuffle at which Math.random is free; at
\* the steps before them it is taken just below 1, which leaves the element
\* in place
MaxShuffled == 2

\* the draws j of one shuffleArray call on n elements, for i = n - 1 down to 1
Draws(n) ==
    LET free == 1..(IF MaxShuffled < n - 1 THEN MaxShuffled ELSE n - 1) IN
    { [i \in 1..(n - 1) |-> IF i \in free THEN f[i] ELSE i] :
        f \in {g \in [free -> 0..(n - 1)] : \A i \in free : g[i] <= i} }

\* the loop of shuffleArray from step i down; arr[0] is held at arr[1]
RECURSIVE Shuffled(_, _, _)
Shuffled(arr, draws, i) ==
    IF i <= 0 THEN arr
    ELSE LET j == draws[i] IN
         Shuffled([arr EXCEPT ![i + 1] = arr[j + 1], ![j + 1] = arr[i + 1]],
                  draws, i - 1)

shuffleArray(arr, draws) == Shuffled(arr, draws, Len(arr) - 1)

\* the squares of the given rows of one square colour, in the order pushed
RECURSIVE SquaresOfRow(_, _, _)
SquaresOfRow(r, c, squareColor) ==
    IF c > 7 THEN << >>
    ELSE (IF getSquareColor(r, c) = squareColor THEN << [row |-> r, col |-> c] >> ELSE << >>)
         \o SquaresOfRow(r, c + 1, squareColor)

RECURSIVE SquaresOfRows(_, _)
SquaresOfRows(rows, squareColor) ==
    IF Len(rows) = 0 THEN << >>
    ELSE SquaresOfRow(Head(rows), 0, squareColor) \o SquaresOfRows(Tail(rows), squareColor)

requirements ==
    << [type |-> "bishop", count |-> 2, needsBothColors |-> TRUE],
       [type |-> "rook", count |-> 2, needsBothColors |-> TRUE],
       [type |-> "knight", count |-> 2, needsBothColors |-> TRUE],
       [type |-> "queen", count |-> 1, needsBothColors |-> FALSE],
       [type |-> "king", count |-> 1, needsBothColors |-> FALSE],
       [type |-> "pawn", count |-> 8, needsBothColors |-> FALSE] >>

\* the piece generateSide puts on square sq (its id, a random string, is
\* left out)
PlacedPiece(color, pieceType, sq) ==
    [ type |-> symbols(color, pieceType),
      pieceType |-> pieceType,
      color |-> color,
      hasMoved |-> FALSE,
      startingRow |-> sq.row ]

PutOn(st, color, pieceType, squareColor) ==
    LET sq == Head(st[squareColor]) IN
    [st EXCEPT !.sideBoard[sq.row + 1][sq.col + 1] = PlacedPiece(color, pieceType, sq),
               ![squareColor] = Tail(@)]

\* one pass of the inner loop of generateSide: the i-th piece of req
FailedToPlace(st, color, req) ==
    [st EXCEPT !.failed = Append(@, "Failed to place " \o color \o " " \o req.type)]

\* generateSide whose pieces that need no square colour take light squares only
PlaceOne_LightOnly(st, color, req, i) ==
    IF req.needsBothColors
    THEN IF i = 0 /\ Len(st.light) > 0 THEN PutOn(st, color, req.type, "light")
         ELSE IF i = 1 /\ Len(st.dark) > 0 THEN PutOn(st, color, req.type, "dark")
         ELSE FailedToPlace(st, color, req)
    ELSE IF Len(st.light) > 0 THEN PutOn(st, color, req.type, "light")
         ELSE FailedToPlace(st, color, req)

PlaceOne(st, color, req, i) ==
    IF req.needsBothColors
    THEN IF i = 0 /\ Len(st.light) > 0 THEN PutOn(st, color, req.type, "light")
         ELSE IF i = 1 /\ Len(st.dark) > 0 THEN PutOn(st, color, req.type, "dark")
         ELSE FailedToPlace(st, color, req)
    ELSE IF Len(st.light) > 0 THEN PutOn(st, color, req.type, "light")
         ELSE IF Len(st.dark) > 0 THEN PutOn(st, color, req.type, "dark")
         ELSE FailedToPlace(st, color, req)

RECURSIVE PlaceReq(_, _, _, _)
PlaceReq(st, color, req, i) ==
    IF i >= req.count THEN st
    ELSE PlaceReq(PlaceOne(st, color, req, i), color, req, i + 1)

RECURSIVE PlaceAll(_, _, _)
PlaceAll(st, color, k) ==
    IF k > Len(requirements) THEN st
    ELSE PlaceAll(PlaceReq(st, color, requirements[k], 0), color, k + 1)

\* generateSide up to its return: the side board, the squares left and the
\* lines written to console.error; random gives the draws of the two shuffles
GeneratedSide(color, rows, random) ==
    PlaceAll([ sideBoard |-> [r \in 1..8 |-> [c \in 1..8 |-> Empty]],
               light |-> shuffleArray(SquaresOfRows(rows, "light"), random.light),
               dark |-> shuffleArray(SquaresOfRows(rows, "dark"), random.dark),
               failed |-> << >> ],
             color, 1)

generateSide(color, rows, random) == GeneratedSide(color, rows, random).sideBoard

\* what the two generateSide calls of generateBoard write to console.error
generateBoardErrors(random) ==
    GeneratedSide("white", <<0, 1>>, random.white).failed
    \o GeneratedSide("black", <<6, 7>>, random.black).failed

generateBoard(random) ==
    LET whiteBoard == generateSide("white", <<0, 1>>, random.white)
        blackBoard == generateSide("black", <<6, 7>>, random.black)
    IN [r \in 1..8 |-> [c \in 1..8 |->
           IF r - 1 < 2 /\ IsPiece(whiteBoard[r][c]) THEN whiteBoard[r][c]
           ELSE IF r - 1 >= 6 /\ IsPiece(blackBoard[r][c]) THEN blackBoard[r][c]
           ELSE Empty]]

\* the squares in the order verifyBoard scans them
ScanOrder == [k \in 1..64 |-> [row |-> (k - 1) \div 8, col |-> (k - 1) % 8]]

\* the square colours verifyBoard meets, in scan order, for the pieces of
\* one colour and type
SquareColorsOf(board, color, pieceType) ==
    LET on == SelectSeq(ScanOrder,
                        LAMBDA sq : LET piece == At(board, sq.row, sq.col) IN
                                    /\ IsPiece(piece)
                                    /\ piece.color = color
                                    /\ piece.pieceType = pieceType)
    IN [k \in 1..Len(on) |-> getSquareColor(on[k].row, on[k].col)]

LastOrNull(list) == IF Len(list) = 0 THEN NULL ELSE list[Len(list)]

Collected(board, color) ==
    [ bishops |-> [ light |-> \E k \in 1..Len(SquareColorsOf(board, color, "bishop")) :
                                  SquareColorsOf(board, color, "bishop")[k] = "light",
                    dark |-> \E k \in 1..Len(SquareColorsOf(board, color, "bishop")) :
                                  SquareColorsOf(board, color, "bishop")[k] = "dark" ],
      rooks |-> SquareColorsOf(board, color, "rook"),
      knights |-> SquareColorsOf(board, color, "knight"),
      kingQueen |-> [ king |-> LastOrNull(SquareColorsOf(board, color, "king")),
                      queen |-> LastOrNull(SquareColorsOf(board, color, "queen")) ] ]

Validated(side) ==
    [ bishops |-> side.bishops.light /\ side.bishops.dark,
      rooks |-> Len(side.rooks) = 2 /\ side.rooks[1] # side.rooks[2],
      knights |-> Len(side.knights) = 2 /\ side.knights[1] # side.knights[2],
      kingQueen |-> side.kingQueen.king # side.kingQueen.queen ]

verifyBoard(board) ==
    [ white |-> Collected(board, "white"),
      black |-> Collected(board, "black"),
      valid |-> [ white |-> Validated(Collected(board, "white")),
                  black |-> Validated(Collected(board, "black")) ] ]

\* the outcomes of Math.random during one generateBoard
Randoms ==
    [ white : [light : Draws(8), dark : Draws(8)],
      black : [light : Draws(8), dark : Draws(8)] ]

\* the module is loaded; Math.random will give the draws of arg
InitBoard ==
    /\ now = 0
    /\ writable = TRUE
    /\ storage = NoItem
    /\ db = DefaultDb(0)
    /\ currentGame = NoGame
    /\ nextId = 0
    /\ op = "RChessDistribution"
    /\ ret = RetUndefined
    /\ pre = "NotStarted"
    /\ afterReset = 0
    /\ exported = NoItem
    /\ placeErrors = << >>
    /\ arg \in [query : {"generateBoard"}, random : Randoms]

callGenerateBoard ==
    /\ arg.query = "generateBoard"
    /\ ret' = RetObject(generateBoard(arg.random))
    /\ placeErrors' = placeErrors \o generateBoardErrors(arg.random)
    /\ op' = "generateBoard"
    /\ UNCHANGED <<db, currentGame, storage, writable, now, nextId, pre, afterReset,
                   arg, exported>>

\* verifyBoard on the board generateBoard returned
callVerifyBoard ==
    /\ op = "generateBoard"
    /\ arg' = [query |-> "verifyBoard", board |-> ret.value]
    /\ ret' = RetObject(verifyBoard(ret.value))
    /\ op' = "verifyBoard"
    /\ UNCHANGED <<db, currentGame, storage, writable, now, nextId, pre, afterReset,
                   exported, placeErrors>>

NextBoard ==
    \/ callGenerateBoard
    \/ callVerifyBoard

SpecBoard == InitBoard /\ [][NextBoard]_vars

\* ---------------------------------------------------------------- properties
\* the position keys a game went through
GameHashes(game) == {game.positions[i].hash : i \in 1..Len(game.positions)}

Outcomes == {"white", "black", "draw"}

\* an endGame call that finds a game in progress
EndsGame == op' = "endGame" /\ currentGame # NoGame

\* C1: every position record has outcomes.white + outcomes.black +
\* outcomes.draw equal to totalGames, whatever result endGame was given
C1_FoldInvariant ==
    \A h \in DOMAIN db.positions :
        LET p == db.positions[h] IN
        p.outcomes.white + p.outcomes.black + p.outcomes.draw = p.totalGames

\* C2: the endGame that completes a game adds exactly 1 to totalGames and
\* exactly 1 to exactly one outcomes bucket of every position of the game,
\* however often the game recorded that position
C2_DedupPerGame ==
    [][EndsGame =>
        \A h \in GameHashes(currentGame) \cap DOMAIN db.positions :
            LET p == db.positions[h]
                q == db'.positions[h]
            IN /\ q.totalGames = p.totalGames + 1
               /\ Cardinality({o \in Outcomes : q.outcomes[o] = p.outcomes[o] + 1}) = 1
               /\ \A o \in Outcomes : q.outcomes[o] \in {p.outcomes[o], p.outcomes[o] + 1}
    ]_vars

\* C3: every position record has popularity >= totalGames
C3_PopularityAtLeastGames ==
    \A h \in DOMAIN db.positions :
        db.positions[h].popularity >= db.positions[h].totalGames

\* a position two games went through once each: popularity = totalGames = 2
C3_Witness ==
    \E h \in DOMAIN db.positions :
        /\ db.positions[h].totalGames = 2
        /\ db.positions[h].popularity = 2

\* C4: the totalGames of every position record is the number of games of
\* the games list that went through the position
C4_TotalGamesCountsGames ==
    \A h \in DOMAIN db.positions :
        db.positions[h].totalGames =
            Cardinality({i \in 1..Len(db.games) : h \in GameHashes(db.games[i])})

\* statistics of move m in a position record, zero when m was never played
MoveStats(position, m) ==
    IF m \in DOMAIN position.moves
    THEN position.moves[m]
    ELSE [played |-> 0, wins |-> 0, losses |-> 0, draws |-> 0]

\* C5: ending a game adds 1 to played and to one of wins, draws, losses of
\* the move of the first occurrence of every position of the game, also for
\* a move never played from that position before
C5_MoveStatsFolded ==
    [][EndsGame =>
        \A i \in 1..Len(currentGame.positions) :
            LET pos == currentGame.positions[i]
                result == ret'.value.result
            IN (/\ \A j \in 1..(i - 1) : currentGame.positions[j].hash # pos.hash
                /\ pos.move # NULL
                /\ pos.hash \in DOMAIN db.positions)
               => /\ pos.move \in DOMAIN db'.positions[pos.hash].moves
                  /\ LET old == MoveStats(db.positions[pos.hash], pos.move)
                         new == MoveStats(db'.positions[pos.hash], pos.move)
                     IN /\ new.played = old.played + 1
                        /\ new.wins = old.wins + (IF result = pos.player THEN 1 ELSE 0)
                        /\ new.draws = old.draws
                              + (IF result # pos.player /\ result = "draw" THEN 1 ELSE 0)
                        /\ new.losses = old.losses
                              + (IF result # pos.player /\ result # "draw" THEN 1 ELSE 0)
    ]_vars

\* C6: endGame with no game in progress returns null and changes neither the
\* database (games, metadata, position records) nor the tracker
C6_EndGameWithoutGame ==
    [][(op' = "endGame" /\ currentGame = NoGame) =>
        /\ ret' = RetNull
        /\ db' = db
        /\ currentGame' = NoGame
    ]_vars

\* endGame was called a second time right after a game was ended
C6_Witness ==
    /\ op = "endGame"
    /\ pre = "Ended"
    /\ ret = RetNull
    /\ Len(db.games) >= 1

\* C7: metadata.totalGames is the length of the games list, and an endGame
\* with a game in progress appends one record, adds 1 to the counter and
\* leaves no game in progress
C7_GamesCounted ==
    /\ [](db.metadata.totalGames = Len(db.games))
    /\ [][EndsGame =>
            /\ Len(db'.games) = Len(db.games) + 1
            /\ SubSeq(db'.games, 1, Len(db.games)) = db.games
            /\ db'.metadata.totalGames = db.metadata.totalGames + 1
            /\ currentGame' = NoGame
       ]_vars

\* the second game was just ended
C7_Witness ==
    /\ op = "endGame"
    /\ pre = "InProgress"
    /\ Len(db.games) = 2
    /\ db.metadata.totalGames = 2

\* C8: recordPosition with no game in progress starts one: afterwards the
\* current game holds exactly the entry just recorded and result null; the
\* games list and metadata.totalGames are unchanged
C8_AutoStart ==
    [][(op' = "recordPosition" /\ currentGame = NoGame) =>
        /\ currentGame' # NoGame
        /\ Len(currentGame'.positions) = 1
        /\ \E ply \in Plies :
              currentGame'.positions[1] =
                  [hash |-> ret'.value, move |-> ply[3],
                   player |-> ply[2], timestamp |-> now']
        /\ currentGame'.result = NULL
        /\ db'.games = db.games
        /\ db'.metadata.totalGames = db.metadata.totalGames
    ]_vars

\* recordPosition was the first call and started the game
C8_Witness ==
    /\ op = "recordPosition"
    /\ pre = "NotStarted"
    /\ currentGame # NoGame
    /\ Len(currentGame.positions) = 1

\* C9 as stated: once a game has been ended, only startGame puts a game in
\* progress
C9_OnlyStartGameRestarts ==
    [][(tracker = "Ended" /\ currentGame' # NoGame) => op' = "startGame"]_vars

\* C9 amended: once a game has been ended, only startGame and recordPosition
\* (which starts a game itself) put a game in progress; endGame and reset do not
C9_OnlyStartOrRecordRestarts ==
    [][(tracker = "Ended" /\ currentGame' # NoGame)
            => op' \in {"startGame", "recordPosition"}]_vars

\* recordPosition was called after a game was ended and started a new game
C9_Witness ==
    /\ op = "recordPosition"
    /\ pre = "Ended"
    /\ currentGame # NoGame

\* C10: reset leaves no positions, no games and metadata.totalGames = 0, in
\* any tracker state; startGame, recordPosition.., endGame right after it
\* leave exactly that game, counted once in metadata and in each of its
\* positions
C10_ResetClears ==
    /\ [][op' = "reset" =>
            /\ DOMAIN db'.positions = {}
            /\ Len(db'.games) = 0
            /\ db'.metadata.totalGames = 0
       ]_vars
    /\ [](afterReset = 4 =>
            /\ Len(db.games) = 1
            /\ RetObject(db.games[1]) = ret
            /\ db.metadata.totalGames = 1
            /\ DOMAIN db.positions = GameHashes(db.games[1])
            /\ \A h \in DOMAIN db.positions : db.positions[h].totalGames = 1)

\* a game was started before the reset, and the game started after it ended
C10_Witness ==
    /\ afterReset = 4
    /\ db.games[1].id = 2

\* C11: importDatabase of a text that is not a well-formed persisted
\* document returns false and leaves this.db as it was
C11_ImportRejectsMalformed ==
    [][(op' = "importDatabase" /\ ~WellFormedText(arg')) =>
        /\ ret' = RetBool(FALSE)
        /\ db' = db
    ]_vars

\* C12: saveDatabase on a backend that rejects the write returns false and
\* leaves this.db, metadata.lastUpdated included, as it was
C12_FailedSaveChangesNothing ==
    [][(op' = "saveDatabase" /\ ~writable) =>
        /\ ret' = RetBool(FALSE)
        /\ db' = db
    ]_vars

\* C13: a learner constructed over a backend that holds nothing, or a text
\* that is not a well-formed persisted document, has the empty default
\* document
C13_ConstructorFallsBack ==
    (op = "constructor" /\ (storage = NoItem \/ ~WellFormedText(storage))) =>
        /\ WellFormed(db)
        /\ DOMAIN db.positions = {}
        /\ Len(db.games) = 0
        /\ db.metadata.totalGames = 0

\* an importDatabase call given the text exportDatabase returned for a
\* well-formed document
ImportsExported ==
    /\ op' = "importDatabase"
    /\ exported # NoItem
    /\ arg' = exported
    /\ WellFormedText(exported)

C15_InconsistenciesReported ==
    op = "findInconsistencies" =>
        LET out == ret.value
            in == arg.positions
            th == arg.threshold
            Far(pos) ==
                LET d == 2 * pos.outcomes.white - pos.totalGames
                    a == IF d < 0 THEN 0 - d ELSE d
                IN a * th[2] > th[1] * 2 * pos.totalGames
        IN /\ {out[i].hash : i \in 1..Len(out)}
                = {in[i].hash : i \in {j \in 1..Len(in) :
                                        in[j].totalGames >= 5 /\ Far(in[j])}}
           /\ \A i, j \in 1..Len(out) : i # j => out[i].hash # out[j].hash
           /\ \A i \in 1..Len(out) : \A j \in (i + 1)..Len(out) :
                  ~RatLess(RatAbs(out[i].deviation), RatAbs(out[j].deviation))

\* a position with 4 games, all won by white, is not reported next to one
\* with 5 games that is
C15_Witness ==
    /\ op = "findInconsistencies"
    /\ Len(arg.positions) = 2
    /\ \E i \in 1..2 : /\ arg.positions[i].totalGames = 4
                       /\ arg.positions[i].outcomes.white = 4
    /\ Len(ret.value) = 1
    /\ ret.value[1].games = 5

\* C16: the suggestion for a position with recorded moves (played >= 1) is
\* the first of them in the order of non-increasing win rate + bonus, where
\* the bonus is 0.1 * max(0, 1 - played / 20) and never negative; for an
\* unseen position or one without moves the result is empty
C16_SuggestionByClampedBonus ==
    op = "suggestMove" =>
        LET Bonus(played) ==
                IF played >= ExplorationPlays THEN <<0, 1>>
                ELSE <<ExplorationPlays - played, 10 * ExplorationPlays>>
            Rate(stats) == IF arg.color = "black" THEN <<stats.losses, stats.played>>
                           ELSE <<stats.wins, stats.played>>
            Score(stats) == RatAdd(Rate(stats), Bonus(stats.played))
        IN IF arg.pos = NotFound \/ Len(arg.pos.moves) = 0
           THEN ret = RetNull
           ELSE \E i \in 1..Len(arg.pos.moves) :
                   /\ ret.value.move = arg.pos.moves[i][1]
                   /\ RatEq(ret.value.score, Score(arg.pos.moves[i][2]))
                   /\ ~RatLess(ret.value.score, <<0, 1>>)
                   /\ \A j \in 1..Len(arg.pos.moves) :
                          ~RatLess(Score(arg.pos.moves[i][2]), Score(arg.pos.moves[j][2]))

\* C17: getOpeningTree(depth) returns at most 20 lines, in the order of
\* non-increasing games; the games of a line is the number of stored games
\* with at least depth moves whose first depth moves are the line's, so a
\* shorter game is in no line; and games = wins + losses + draws on each line
C17_OpeningTree ==
    op = "getOpeningTree" =>
        LET out == ret.value
            games == arg.games
            depth == arg.depth
            With(prefix) == {i \in 1..Len(games) :
                                /\ Len(games[i].moves) >= depth
                                /\ SubSeq(games[i].moves, 1, depth) = prefix}
        IN /\ Len(out) <= 20
           /\ \A i \in 1..Len(out) : \A j \in (i + 1)..Len(out) :
                  /\ out[i].games >= out[j].games
                  /\ out[i].moves # out[j].moves
           /\ \A i \in 1..Len(out) :
                  /\ Len(out[i].moves) = depth
                  /\ out[i].games = Cardinality(With(out[i].moves))
                  /\ out[i].games >= 1
                  /\ out[i].games = out[i].wins + out[i].losses + out[i].draws

\* 20 lines of two moves come back from a store that has more than 20
\* different two-move openings and games of one move; the first line has
\* more games than the last
C17_Witness ==
    /\ op = "getOpeningTree"
    /\ arg.depth = 2
    /\ Len(ret.value) = 20
    /\ ret.value[1].games > ret.value[20].games
    /\ \E i \in 1..Len(arg.games) : Len(arg.games[i].moves) < 2
    /\ Cardinality({SubSeq(arg.games[i].moves, 1, 2) :
                       i \in {j \in 1..Len(arg.games) : Len(arg.games[j].moves) >= 2}}) > 20

\* C18: whatever the shuffles gave, the board of generateBoard passes every
\* check of verifyBoard for white and for black: bishops on both square
\* colours, the rooks on different square colours, the knights on different
\* square colours, king and queen on different square colours
C18_GeneratedBoardValid ==
    op = "verifyBoard" =>
        \A color \in {"white", "black"} :
            /\ ret.value.valid[color].bishops
            /\ ret.value.valid[color].rooks
            /\ ret.value.valid[color].knights
            /\ ret.value.valid[color].kingQueen

\* C19: recordPosition on a key that has a record changes, in the store,
\* only lastSeen (to the instant of the call) and popularity (by +1) of that
\* record; its fen, patterns, firstSeen, totalGames, outcomes and moves, the
\* other records, the games list and the metadata stay as they were
C19_ReuseChangesOnlyVisit ==
    [][(op' = "recordPosition" /\ ret'.value \in DOMAIN db.positions) =>
          LET hash == ret'.value IN
          /\ DOMAIN db'.positions = DOMAIN db.positions
          /\ \A h \in DOMAIN db.positions \ {hash} : db'.positions[h] = db.positions[h]
          /\ db'.positions[hash] = [db.positions[hash] EXCEPT !.lastSeen = now',
                                                             !.popularity = @ + 1]
          /\ db'.games = db.games
          /\ db'.metadata = db.metadata
          /\ storage' = storage]_vars

\* the record made from BoardA with white to move has been visited again
\* with BoardB and black to move, which has the same key and another fen
C19_Witness ==
    /\ op = "recordPosition"
    /\ currentGame # NoGame
    /\ Len(currentGame.positions) = 2
    /\ currentGame.positions[1].player = "white"
    /\ currentGame.positions[2].player = "black"
    /\ currentGame.positions[2].hash = hashPosition(BoardA, "white")
    /\ currentGame.positions[2].hash = hashPosition(BoardB, "black")
    /\ boardToFEN(BoardB, "black") # boardToFEN(BoardA, "white")
    /\ db.positions[ret.value].fen = boardToFEN(BoardA, "white")
    /\ db.positions[ret.value].patterns = detectPatterns(BoardA, "white")
    /\ db.positions[ret.value].popularity = 2

\* C20: startGame, recordPosition and endGame leave every game record of
\* the games list as it is and where it is; the list grows only at its end,
\* by one record at a time
C20_GamesOnlyAppended ==
    [][op' \in {"startGame", "recordPosition", "endGame"} =>
          /\ Len(db'.games) \in {Len(db.games), Len(db.games) + 1}
          /\ SubSeq(db'.games, 1, Len(db.games)) = db.games]_vars

\* a second game has been appended behind the first
C20_Witness ==
    /\ op = "endGame"
    /\ Len(db.games) = 2
    /\ db.games[1].id = 1
    /\ db.games[2].id = 2
    /\ Len(db.games[1].positions) > 0

\* C21: whatever the shuffles gave, the board of generateBoard has for each
\* colour 2 bishops, 2 rooks, 2 knights, 1 queen, 1 king and 8 pawns, a piece
\* of that colour on each of the 16 squares of its two rows (0 and 1 for
\* white, 6 and 7 for black) and nothing on rows 2 to 5, and no piece failed
\* to be placed
C21_GeneratedBoardComplete ==
    op = "generateBoard" =>
        LET board == ret.value
            Count(color, pieceType) ==
                Cardinality({sq \in (0..7) \X (0..7) :
                                /\ At(board, sq[1], sq[2]).color = color
                                /\ At(board, sq[1], sq[2]).pieceType = pieceType})
            Rows(color) == IF color = "white" THEN {0, 1} ELSE {6, 7}
        IN /\ \A color \in {"white", "black"} :
                  /\ Count(color, "bishop") = 2
                  /\ Count(color, "rook") = 2
                  /\ Count(color, "knight") = 2
                  /\ Count(color, "queen") = 1
                  /\ Count(color, "king") = 1
                  /\ Count(color, "pawn") = 8
                  /\ \A r \in Rows(color) : \A c \in 0..7 :
                         /\ IsPiece(At(board, r, c))
                         /\ At(board, r, c).color = color
                         /\ At(board, r, c).startingRow = r
           /\ \A r \in 2..5 : \A c \in 0..7 : At(board, r, c) = Empty
           /\ placeErrors = << >>

\* a board whose shuffles moved squares: the first light square of white's
\* rows and the first dark square of black's rows carry no bishop
C21_Witness ==
    /\ op = "generateBoard"
    /\ arg.random.white.light[1] = 0
    /\ arg.random.black.dark[2] = 0
    /\ At(ret.value, 0, 0).pieceType # "bishop"
    /\ At(ret.value, 6, 1).pieceType # "bishop"
    /\ \E c \in 0..7 : At(ret.value, 1, c).pieceType = "pawn"
    /\ \E c \in 0..7 : At(ret.value, 6, c).pieceType = "pawn"

====
